---- MODULE Spec2Model ----
(***************************************************************************)
(* Model of the copy-cases action of dhis2-godata-interoperability        *)
(* (src/unnamed/part_000, lines 30-238): outbreak assignment by a walk up  *)
(* the organisation-unit tree, event enrichment, lab result and case       *)
(* classification, and the sending of cases to Go.Data.                    *)
(*                                                                         *)
(* Four specifications share the variables; each drives one part of the    *)
(* pipeline and leaves the variables of the other parts at their initial   *)
(* values:                                                                 *)
(*   SpecAssign   assignOutbreak / findOutbreackForCase                    *)
(*   SpecEnrich   the four addEvent stages of addLabInformation            *)
(*   SpecClassify addLabResult, then addCaseClassification                 *)
(*   SpecSend     sendCasesToGoData against an asynchronous client         *)
(***************************************************************************)
EXTENDS Integers, Sequences, FiniteSets, Bags, TLC

VARIABLES
  \* --- assignOutbreak ---
  orgUnits,        \* list of organisation units {id, parent}
  outbreaks,       \* list of outbreaks {id, locationIds}
  trackedEntity,   \* the tracked entity given to assignOutbreak(...)(te)
  aPc,             \* "idle" | "walking" | "returned" | "thrown"
  locationID,      \* argument of the current findOutbreackForCase frame
  depth,           \* number of recursive calls made so far (parent steps)
  assigned,        \* the value assignOutbreak returned (the TEI with outbreak)
  run,             \* 1 for the first resolution, 2 for the repeated one
  firstAssigned,   \* outcome of the first resolution, <<aPc, assigned>>
  \* --- addEvent x 4 ---
  events,          \* te.events of the entity being enriched
  dataElements,    \* the data element catalog
  enriched,        \* the entity as it moves through the four addEvent stages
  ePc,             \* number of addEvent stages applied so far (0..4)
  \* --- addLabResult / addCaseClassification ---
  conditions,      \* confirmedTestConditions, a list of <<dataElement, value>>
  te,              \* the entity as it moves through the two classifier stages
  cPc,             \* "staged" | "labResult" | "classified"
  \* --- sendCasesToGoData ---
  cases,           \* the case list given to sendCasesToGoData(godata)
  groups,          \* R.groupBy(R.prop('outbreak')) of the list
  pending,         \* keys of groups the for-in loop has not visited yet
  current,         \* key of the group being processed
  user,            \* what login resolved with
  calls,           \* every client call issued so far, with its status
  sPc              \* position of the async function

varsAssign == <<orgUnits, outbreaks, trackedEntity, aPc, locationID, depth,
                assigned, run, firstAssigned>>
varsEnrich == <<events, dataElements, enriched, ePc>>
varsClassify == <<conditions, te, cPc>>
varsSend == <<cases, groups, pending, current, user, calls, sPc>>
vars == <<varsAssign, varsEnrich, varsClassify, varsSend>>

\* What an action of one part leaves alone: the variables of the other parts.
notAssign == <<varsEnrich, varsClassify, varsSend>>
notEnrich == <<varsAssign, varsClassify, varsSend>>
notClassify == <<varsAssign, varsEnrich, varsSend>>
notSend == <<varsAssign, varsEnrich, varsClassify>>

(***************************************************************************)
(* JavaScript / Ramda helpers                                              *)
(***************************************************************************)

\* JavaScript's undefined; as an object key it is the string "undefined".
Undefined == "undefined"

\* R.prop: the property, or undefined when the object does not have it.
prop(name, obj) == IF name \in DOMAIN obj THEN obj[name] ELSE Undefined

\* R.assoc: a copy of the object with the property set.
assoc(name, val, obj) ==
  [k \in (DOMAIN obj) \cup {name} |-> IF k = name THEN val ELSE obj[k]]

\* R.dissoc: a copy of the object without the property.
dissoc(name, obj) == [k \in (DOMAIN obj) \ {name} |-> obj[k]]

\* R.find, given what the predicate says of each element of the list: the
\* index of the first element it accepts, 0 (for undefined) when it accepts
\* none.
find(hits) ==
  IF \E i \in 1..Len(hits) : hits[i]
  THEN CHOOSE i \in 1..Len(hits) : hits[i] /\ \A j \in 1..(i - 1) : ~hits[j]
  ELSE 0

\* All sequences over S of length at most n.
SeqsUpTo(S, n) == UNION {[1..k -> S] : k \in 0..n}

\* Sequences without a repeated element.
Distinct(s) == \A i, j \in 1..Len(s) : i # j => s[i] # s[j]

(***************************************************************************)
(* Outbreak assignment: assignOutbreak and findOutbreackForCase            *)
(***************************************************************************)

UnitIds == {"U1", "U2", "U3"}
OutbreakIds == {"O1", "O2"}
MaxOrgUnits == 3
MaxOutbreaks == 2
MaxLocations == 2

\* An organisation unit: a root has no parent property.
OrgUnitRecords ==
  {[id |-> u] : u \in UnitIds}
    \cup {[id |-> u, parent |-> [id |-> p]] : u \in UnitIds, p \in UnitIds}

OutbreakRecords ==
  {[id |-> o, locationIds |-> l] :
     o \in OutbreakIds,
     l \in {x \in SeqsUpTo(UnitIds, MaxLocations) : Distinct(x)}}

Ids(list) == [i \in 1..Len(list) |-> list[i].id]

\* The unit reached from u after k parent steps; undefined once the walk has
\* left the list (unknown unit) or passed a unit without a parent.
RECURSIVE Up(_, _, _)
Up(units, u, k) ==
  IF k = 0 THEN u
  ELSE LET below == Up(units, u, k - 1)
           i == find([n \in 1..Len(units) |-> units[n].id = below])
       IN IF below = Undefined \/ i = 0 \/ "parent" \notin DOMAIN units[i]
          THEN Undefined
          ELSE units[i].parent.id

\* The parent links form a forest: every walk up leaves the list.
Acyclic(units) ==
  \A u \in UnitIds : Up(units, u, Cardinality(UnitIds) + 1) = Undefined

\* R.reduceBy((acc, el) => R.append(el, acc), [], R.path(['locationIds', 0])):
\* the outbreaks grouped, in list order, under their first location id. The
\* key of an outbreak without locations is undefined.
firstLocation(outbreak) ==
  IF Len(outbreak.locationIds) = 0 THEN Undefined ELSE outbreak.locationIds[1]

\* The index with R.prepend in place of R.append: a bucket in reverse order.
locationsAvaliableLastWins(list) ==
  [key \in {firstLocation(list[i]) : i \in 1..Len(list)} |->
     LET bucket == SelectSeq(list, LAMBDA o : firstLocation(o) = key)
     IN [i \in 1..Len(bucket) |-> bucket[Len(bucket) + 1 - i]]]

locationsAvaliable(list) ==
  [key \in {firstLocation(list[i]) : i \in 1..Len(list)} |->
     SelectSeq(list, LAMBDA o : firstLocation(o) = key)]

\* The frame that calls itself with locationID in place of parentID.
findOutbreackForCaseSameUnit(available, units, loc) ==
  IF loc \in DOMAIN available
  THEN [kind |-> "return", value |-> available[loc][1].id]
  ELSE LET i == find([n \in 1..Len(units) |-> units[n].id = loc])
       IN IF i = 0 \/ "parent" \notin DOMAIN units[i]
          THEN [kind |-> "throw"]
          ELSE [kind |-> "recurse", locationID |-> loc]

\* One frame of findOutbreackForCase(available, orgUnits, locationID): it
\* returns an outbreak id, calls itself with the parent id, or throws the
\* TypeError of reading .parent of undefined or .id of undefined.
findOutbreackForCase(available, units, loc) ==
  IF loc \in DOMAIN available
  THEN [kind |-> "return", value |-> available[loc][1].id]
  ELSE LET i == find([n \in 1..Len(units) |-> units[n].id = loc])
       IN IF i = 0 \/ "parent" \notin DOMAIN units[i]
          THEN [kind |-> "throw"]
          ELSE [kind |-> "recurse", locationID |-> units[i].parent.id]

InitAssignIdle ==
  /\ orgUnits = <<>>
  /\ outbreaks = <<>>
  /\ trackedEntity = [trackedEntityInstance |-> "T1", orgUnit |-> "U1"]
  /\ aPc = "idle"
  /\ locationID = Undefined
  /\ depth = 0
  /\ assigned = trackedEntity
  /\ run = 1
  /\ firstAssigned = <<"idle", trackedEntity>>

\* The tables as loadResources delivers them: organisation units and
\* outbreaks carry unique ids, in any order; the parent of a unit may be a
\* unit outside the list (the parent of the configured root); the parent
\* links have no cycle.
InitAssign ==
  /\ orgUnits \in {l \in SeqsUpTo(OrgUnitRecords, MaxOrgUnits) :
                     Distinct(Ids(l)) /\ Acyclic(l)}
  /\ outbreaks \in {l \in SeqsUpTo(OutbreakRecords, MaxOutbreaks) :
                      Distinct(Ids(l))}
  /\ trackedEntity \in {[trackedEntityInstance |-> "T1", orgUnit |-> u] :
                          u \in UnitIds}
  /\ aPc = "idle"
  /\ locationID = Undefined
  /\ depth = 0
  /\ assigned = trackedEntity
  /\ run = 1
  /\ firstAssigned = <<"idle", trackedEntity>>

\* assignOutbreak(outbreaks, orgUnits)(trackedEntity): the first frame of the
\* walk is entered with the entity's own organisation unit.
AssignCall ==
  /\ aPc = "idle"
  /\ aPc' = "walking"
  /\ locationID' = trackedEntity.orgUnit
  /\ depth' = 0
  /\ UNCHANGED <<orgUnits, outbreaks, trackedEntity, assigned, run,
                 firstAssigned>>
  /\ UNCHANGED notAssign

\* One frame of the walk. A return goes through every waiting frame
\* unchanged, and R.assoc stores it as the entity's outbreak.
FindStep ==
  /\ aPc = "walking"
  /\ LET r == findOutbreackForCase(locationsAvaliable(outbreaks), orgUnits,
                                    locationID)
     IN \/ /\ r.kind = "return"
           /\ aPc' = "returned"
           /\ assigned' = assoc("outbreak", r.value, trackedEntity)
           /\ UNCHANGED <<locationID, depth>>
        \/ /\ r.kind = "throw"
           /\ aPc' = "thrown"
           /\ UNCHANGED <<locationID, depth, assigned>>
        \/ /\ r.kind = "recurse"
           /\ locationID' = r.locationID
           /\ depth' = depth + 1
           /\ UNCHANGED <<aPc, assigned>>
  /\ UNCHANGED <<orgUnits, outbreaks, trackedEntity, run, firstAssigned>>
  /\ UNCHANGED notAssign

\* The same entity is resolved a second time against the same tables.
AssignAgain ==
  /\ aPc \in {"returned", "thrown"}
  /\ run = 1
  /\ run' = 2
  /\ firstAssigned' = <<aPc, assigned>>
  /\ aPc' = "walking"
  /\ locationID' = trackedEntity.orgUnit
  /\ depth' = 0
  /\ assigned' = trackedEntity
  /\ UNCHANGED <<orgUnits, outbreaks, trackedEntity>>
  /\ UNCHANGED notAssign

NextAssign == AssignCall \/ FindStep \/ AssignAgain

(***************************************************************************)
(* Event enrichment: findAndTransformEvent and addEvent                    *)
(***************************************************************************)

MaxEvents == 2

\* programStagesIDs as copyCases resolves them: clinical examination, lab
\* request, lab results, symptoms. "S9" is a stage of the program that is
\* none of the four.
programsIDs == <<"S1", "S2", "S3", "S4">>
eventNames ==
  <<"clinicalExamination", "labRequestStage", "labResultStage", "symptoms">>
EventStages == {"S1", "S2", "S3", "S4", "S9"}

\* The data value lists of the events, as DHIS2 delivers them.
EventDataValues ==
  { <<>>,
    <<[dataElement |-> "D1", value |-> "P"]>>,
    <<[dataElement |-> "D2", value |-> "N"]>>,
    <<[dataElement |-> "D1", value |-> "P"],
      [dataElement |-> "D3", value |-> "N"]>> }

\* An event may come without a dataValues property.
EventRecords ==
  {[programStage |-> st] : st \in EventStages}
    \cup {[programStage |-> st, dataValues |-> l] :
            st \in EventStages, l \in EventDataValues}

\* The data element catalogs: empty, complete for D1 and D2, one with two
\* entries for D1, one whose entry has no displayName.
Catalogs ==
  { <<>>,
    <<[id |-> "D1", displayName |-> "Test result"],
      [id |-> "D2", displayName |-> "Test type"]>>,
    <<[id |-> "D2", displayName |-> "Test type"],
      [id |-> "D1", displayName |-> "Test result"],
      [id |-> "D1", displayName |-> "Result (old)"]>>,
    <<[id |-> "D1"]>> }

\* R.pipe(R.find(R.propEq('id', id)), R.prop('displayName'))(dataElements)
displayNameOf(catalog, id) ==
  LET j == find([n \in 1..Len(catalog) |-> prop("id", catalog[n]) = id])
  IN IF j = 0 THEN Undefined ELSE prop("displayName", catalog[j])

\* The transform that takes the last event of the stage, not the first.
findAndTransformEventLast(catalog, programID, evs) ==
  LET matching == {i \in 1..Len(evs) :
                     prop("programStage", evs[i]) = programID}
      i == IF matching = {} THEN 0
           ELSE CHOOSE x \in matching : \A y \in matching : y <= x
      dataValues ==
        IF i = 0 \/ "dataValues" \notin DOMAIN evs[i]
        THEN <<>>
        ELSE evs[i].dataValues
  IN [n \in 1..Len(dataValues) |->
        assoc("displayName",
              displayNameOf(catalog, dataValues[n].dataElement),
              dataValues[n])]

\* findAndTransformEvent(dataElements, programID, events)
findAndTransformEvent(catalog, programID, evs) ==
  LET i == find([n \in 1..Len(evs) |->
                   prop("programStage", evs[n]) = programID])
      dataValues ==
        IF i = 0 \/ "dataValues" \notin DOMAIN evs[i]
        THEN <<>>                       \* R.defaultTo([])
        ELSE evs[i].dataValues
  IN [n \in 1..Len(dataValues) |->
        assoc("displayName",
              displayNameOf(catalog, dataValues[n].dataElement),
              dataValues[n])]

\* addEvent(dataElements, eventName, programStageID)(te)
addEvent(catalog, eventName, programStageID, entity) ==
  assoc(eventName,
        findAndTransformEvent(catalog, programStageID, entity.events),
        entity)

\* The entity as loadTrackedEntityInstances delivers it.
RawEntity(evs) ==
  [trackedEntityInstance |-> "T1", orgUnit |-> "U1", events |-> evs]

InitEnrichIdle ==
  /\ events = <<>>
  /\ dataElements = <<>>
  /\ enriched = RawEntity(events)
  /\ ePc = 0

InitEnrich ==
  /\ events \in SeqsUpTo(EventRecords, MaxEvents)
  /\ dataElements \in Catalogs
  /\ enriched = RawEntity(events)
  /\ ePc = 0

\* The next of the four addEventByID stages of addLabInformation's pipe.
AddEvent ==
  /\ ePc < Len(programsIDs)
  /\ enriched' = addEvent(dataElements, eventNames[ePc + 1],
                          programsIDs[ePc + 1], enriched)
  /\ ePc' = ePc + 1
  /\ UNCHANGED <<events, dataElements>>
  /\ UNCHANGED notEnrich

NextEnrich == AddEvent

(***************************************************************************)
(* Lab result and case classification                                      *)
(***************************************************************************)

MaxDataValues == 2
MaxConditions == 2

ElementIds == {"D1", "D2"}
Values == {"P", "N"}

\* An enriched data value of a stage field.
StageDataValues ==
  {[dataElement |-> d, value |-> v, displayName |-> "Test"] :
     d \in ElementIds, v \in Values}

\* The other three stage fields only matter by being empty or not.
StageLists == {<<>>, <<[dataElement |-> "D1", value |-> "P",
                        displayName |-> "Test"]>>}

\* findDataValueByID(dataValues, id): index of the data value found, 0 for
\* undefined.
findDataValueByID(dataValues, id) ==
  find([n \in 1..Len(dataValues) |-> dataValues[n].dataElement = id])

\* checkDataValue(dataValues, dataElement, value):
\* R.propEq('value', value, found || {})
checkDataValue(dataValues, dataElement, value) ==
  LET i == findDataValueByID(dataValues, dataElement)
  IN (IF i = 0 THEN Undefined ELSE prop("value", dataValues[i])) = value

\* The check with R.anyPass in place of R.allPass.
checkDataValuesConditionsAny(conds, entity) ==
  \E c \in 1..Len(conds) :
    checkDataValue(prop("labResultStage", entity), conds[c][1], conds[c][2])

\* checkDataValuesConditions(conditions)(te): R.allPass
checkDataValuesConditions(conds, entity) ==
  \A c \in 1..Len(conds) :
    checkDataValue(prop("labResultStage", entity), conds[c][1], conds[c][2])

\* The predicate of addLabResult, _ => _ !== []: the array literal is a new
\* object each time, and no value is identical to it.
stageIsNotEmptyArray(stage) == TRUE

\* addLabResult(confirmedTestConditions)(te)
addLabResult(conds, entity) ==
  IF stageIsNotEmptyArray(prop("labResultStage", entity))
  THEN assoc("labResult",
             IF checkDataValuesConditions(conds, entity)
             THEN "POSITIVE" ELSE "NEGATIVE",
             entity)
  ELSE entity

\* addCaseClassification()(te)
addCaseClassification(entity) ==
  assoc("caseClassification",
        IF prop("labResult", entity) = "POSITIVE"
        THEN "CONFIRMED"
        ELSE IF prop("labResult", entity) = "NEGATIVE"
                /\ Len(entity.labResultStage) > 0
        THEN "NOT_A_CASE_DISCARDED"
        ELSE IF Len(entity.labRequestStage) > 0
        THEN "PROBABLE"
        ELSE "SUSPECT",
        entity)

StagedEntity(ce, req, res, sy) ==
  [trackedEntityInstance |-> "T1", clinicalExamination |-> ce,
   labRequestStage |-> req, labResultStage |-> res, symptoms |-> sy]

InitClassifyIdle ==
  /\ conditions = <<>>
  /\ te = StagedEntity(<<>>, <<>>, <<>>, <<>>)
  /\ cPc = "staged"

InitClassify ==
  /\ conditions \in SeqsUpTo(ElementIds \X Values, MaxConditions)
  /\ te \in {StagedEntity(ce, req, res, sy) :
               ce \in StageLists, req \in StageLists,
               res \in SeqsUpTo(StageDataValues, MaxDataValues),
               sy \in StageLists}
  /\ cPc = "staged"

AddLabResult ==
  /\ cPc = "staged"
  /\ te' = addLabResult(conditions, te)
  /\ cPc' = "labResult"
  /\ UNCHANGED conditions
  /\ UNCHANGED notClassify

AddCaseClassification ==
  /\ cPc = "labResult"
  /\ te' = addCaseClassification(te)
  /\ cPc' = "classified"
  /\ UNCHANGED conditions
  /\ UNCHANGED notClassify

NextClassify == AddLabResult \/ AddCaseClassification

(***************************************************************************)
(* Sending: sendCasesToGoData against the Go.Data client                   *)
(***************************************************************************)

MaxCases == 3

CaseIds == {"c1", "c2"}
UserIds == {"A", "B"}

\* A case as trackedEntityToCase leaves it: its Go.Data fields and the
\* outbreak that assignOutbreak stored.
CaseRecords ==
  {[id |-> c, classification |-> "SUSPECT", outbreak |-> o] :
     c \in CaseIds, o \in OutbreakIds}

\* R.groupBy(R.prop('outbreak')): the cases of each outbreak, in list order.
groupBy(list) ==
  [key \in {list[i].outbreak : i \in 1..Len(list)} |->
     SelectSeq(list, LAMBDA c : c.outbreak = key)]

\* The client calls of sendCasesToGoData, as issued.
loginCall == [op |-> "login", status |-> "pending"]

\* The activation that reads user.id, which the login result does not have.
activateOutbreakForUserCallUserDotId(u, outbreak) ==
  [op |-> "activateOutbreakForUser", userId |-> prop("id", u),
   outbreak |-> outbreak, status |-> "pending"]

activateOutbreakForUserCall(u, outbreak) ==
  [op |-> "activateOutbreakForUser", userId |-> u.userId,
   outbreak |-> outbreak, status |-> "pending"]

\* The submission without R.dissoc('outbreak').
createOutbreakCaseCallKeepsOutbreak(outbreak, case) ==
  [op |-> "createOutbreakCase", outbreak |-> outbreak,
   case |-> case, status |-> "pending"]

createOutbreakCaseCall(outbreak, case) ==
  [op |-> "createOutbreakCase", outbreak |-> outbreak,
   case |-> dissoc("outbreak", case), status |-> "pending"]

\* Promise.all over the promises with these statuses: rejected with the
\* first rejection, resolved once all are resolved.
allPromises(statuses) ==
  IF \E i \in 1..Len(statuses) : statuses[i] = "rejected" THEN "rejected"
  ELSE IF \A i \in 1..Len(statuses) : statuses[i] = "resolved" THEN "resolved"
  ELSE "pending"

IndexOfLast(op) ==
  CHOOSE i \in 1..Len(calls) :
    calls[i].op = op /\ \A j \in (i + 1)..Len(calls) : calls[j].op # op

\* The two awaits of the loop body left out: the function goes on at once.
awaitActivateLeftOut == "resolved"
awaitCasesLeftOut == "resolved"

\* await godata.login()
awaitLogin == calls[IndexOfLast("login")].status

\* await godata.activateOutbreakForUser(user.userId, outbreak)
awaitActivate == calls[IndexOfLast("activateOutbreakForUser")].status

\* await allPromises(R.map(case_ => godata.createOutbreakCase(...), cases)):
\* the calls of the group are the last Len(groups[current]) calls issued.
awaitCases ==
  allPromises(SubSeq([i \in 1..Len(calls) |-> calls[i].status],
                     Len(calls) - Len(groups[current]) + 1, Len(calls)))

InitSendIdle ==
  /\ cases = <<>>
  /\ groups = <<>>
  /\ pending = {}
  /\ current = Undefined
  /\ user = [userId |-> Undefined]
  /\ calls = <<>>
  /\ sPc = "start"

InitSend ==
  /\ cases \in SeqsUpTo(CaseRecords, MaxCases)
  /\ groups = <<>>
  /\ pending = {}
  /\ current = Undefined
  /\ user = [userId |-> Undefined]
  /\ calls = <<>>
  /\ sPc = "start"

\* sendCasesToGoData(godata)(cases): the list is grouped and the async
\* function runs up to its first await, which issues the login.
SendCall ==
  /\ sPc = "start"
  /\ groups' = groupBy(cases)
  /\ pending' = DOMAIN groupBy(cases)
  /\ calls' = <<loginCall>>
  /\ sPc' = "awaitLogin"
  /\ UNCHANGED <<cases, current, user>>
  /\ UNCHANGED notSend

\* The client answers a call: a login resolves with a user.
ClientResolves ==
  \E i \in 1..Len(calls) :
    /\ calls[i].status = "pending"
    /\ \/ /\ calls[i].op = "login"
          /\ \E u \in UserIds :
               calls' = [calls EXCEPT ![i] =
                           [op |-> "login", status |-> "resolved",
                            result |-> [userId |-> u]]]
       \/ /\ calls[i].op # "login"
          /\ calls' = [calls EXCEPT ![i].status = "resolved"]
    /\ UNCHANGED <<cases, groups, pending, current, user, sPc>>
    /\ UNCHANGED notSend

\* The client fails a call.
ClientRejects ==
  \E i \in 1..Len(calls) :
    /\ calls[i].status = "pending"
    /\ calls' = [calls EXCEPT ![i].status = "rejected"]
    /\ UNCHANGED <<cases, groups, pending, current, user, sPc>>
    /\ UNCHANGED notSend

\* The head of the for-in loop: the next key is activated, or the loop and
\* the function end. Which key comes next depends on the shape of the keys
\* (integer-like keys come first, ascending, then the others as inserted),
\* so any key not yet visited may be the next.
LoopHead(u, left, log) ==
  IF left = {}
  THEN /\ sPc' = "done"
       /\ calls' = log
       /\ UNCHANGED <<pending, current>>
  ELSE \E outbreak \in left :
         /\ current' = outbreak
         /\ pending' = left \ {outbreak}
         /\ calls' = Append(log, activateOutbreakForUserCall(u, outbreak))
         /\ sPc' = "awaitActivate"

\* const user = await godata.login() resumes.
ResumeLogin ==
  /\ sPc = "awaitLogin"
  /\ awaitLogin = "resolved"
  /\ user' = calls[IndexOfLast("login")].result
  /\ LoopHead(user', pending, calls)
  /\ UNCHANGED <<cases, groups>>
  /\ UNCHANGED notSend

\* await godata.activateOutbreakForUser(...) resumes: R.map issues one
\* createOutbreakCase per case of the group, in order, before the next await.
ResumeActivate ==
  /\ sPc = "awaitActivate"
  /\ awaitActivate = "resolved"
  /\ calls' = calls \o [n \in 1..Len(groups[current]) |->
                          createOutbreakCaseCall(current, groups[current][n])]
  /\ sPc' = "awaitCases"
  /\ UNCHANGED <<cases, groups, pending, current, user>>
  /\ UNCHANGED notSend

\* await allPromises(...) resumes: the loop goes on.
ResumeCases ==
  /\ sPc = "awaitCases"
  /\ awaitCases = "resolved"
  /\ LoopHead(user, pending, calls)
  /\ UNCHANGED <<cases, groups, user>>
  /\ UNCHANGED notSend

\* The awaited promise is rejected: the async function ends with that
\* rejection, whatever is still in flight.
Abort ==
  /\ \/ sPc = "awaitLogin" /\ awaitLogin = "rejected"
     \/ sPc = "awaitActivate" /\ awaitActivate = "rejected"
     \/ sPc = "awaitCases" /\ awaitCases = "rejected"
  /\ sPc' = "failed"
  /\ UNCHANGED <<cases, groups, pending, current, user, calls>>
  /\ UNCHANGED notSend

NextSend ==
  \/ SendCall
  \/ ClientResolves
  \/ ClientRejects
  \/ ResumeLogin
  \/ ResumeActivate
  \/ ResumeCases
  \/ Abort

(***************************************************************************)
(* Specifications                                                          *)
(***************************************************************************)

InitA == InitAssign /\ InitEnrichIdle /\ InitClassifyIdle /\ InitSendIdle
InitE == InitAssignIdle /\ InitEnrich /\ InitClassifyIdle /\ InitSendIdle
InitC == InitAssignIdle /\ InitEnrichIdle /\ InitClassify /\ InitSendIdle
InitS == InitAssignIdle /\ InitEnrichIdle /\ InitClassifyIdle /\ InitSend

SpecAssign == InitA /\ [][NextAssign]_vars
SpecEnrich == InitE /\ [][NextEnrich]_vars
SpecClassify == InitC /\ [][NextClassify]_vars
SpecSend == InitS /\ [][NextSend]_vars

(***************************************************************************)
(* Properties of the outbreak assignment (SpecAssign)                      *)
(***************************************************************************)

\* The units that are the first location of some outbreak.
IndexedUnits ==
  {outbreaks[i].locationIds[1] :
     i \in {j \in 1..Len(outbreaks) : Len(outbreaks[j].locationIds) > 0}}

\* The numbers of parent steps after which the walk from the entity's unit
\* stands on a unit of the index.
HitSteps ==
  {k \in 0..Len(orgUnits) :
     /\ Up(orgUnits, trackedEntity.orgUnit, k) # Undefined
     /\ Up(orgUnits, trackedEntity.orgUnit, k) \in IndexedUnits}

Min(S) == CHOOSE x \in S : \A y \in S : x <= y

\* The nearest unit of the index on the way from the entity's unit to the root.
NearestIndexed == Up(orgUnits, trackedEntity.orgUnit, Min(HitSteps))

\* The first outbreak of the list whose first location is that unit.
FirstOutbreakAt(unit) ==
  outbreaks[Min({i \in 1..Len(outbreaks) :
                   /\ Len(outbreaks[i].locationIds) > 0
                   /\ outbreaks[i].locationIds[1] = unit})]

\* C3: on an acyclic organisation-unit tree the walk of findOutbreackForCase
\* makes at most as many parent steps as there are units; it returns an
\* outbreak id exactly when the unit or one of its ancestors is in the
\* outbreak-location index, and otherwise throws at a unit that has no
\* parent or is unknown; resolving the same unit again gives the same
\* outcome.
C3_WalkTerminates ==
  /\ depth <= Len(orgUnits)
  /\ aPc = "walking" => ENABLED FindStep
  /\ aPc = "returned" =>
       /\ HitSteps # {}
       /\ assigned.outbreak \in {outbreaks[i].id : i \in 1..Len(outbreaks)}
  /\ aPc = "thrown" =>
       /\ HitSteps = {}
       /\ \/ \A i \in 1..Len(orgUnits) : orgUnits[i].id # locationID
          \/ \E i \in 1..Len(orgUnits) :
               /\ orgUnits[i].id = locationID
               /\ "parent" \notin DOMAIN orgUnits[i]
  /\ (run = 2 /\ aPc \in {"returned", "thrown"}) =>
       firstAssigned = <<aPc, assigned>>

\* C3 witness: the second resolution of a unit two levels below a root has
\* ended, like the first, in the lookup failure.
C3_Witness ==
  /\ run = 2
  /\ aPc = "thrown"
  /\ depth = 2
  /\ firstAssigned[1] = "thrown"
  /\ Len(outbreaks) > 0

\* C4: assignOutbreak stores the id of the first outbreak, in list order,
\* whose first location id is the nearest unit of the index on the path from
\* the entity's unit to the root; the walk makes exactly the parent steps
\* that lead there (none when the entity's own unit is in the index), and
\* the entity's other fields are kept.
C4_NearestFirstOutbreak ==
  aPc = "returned" =>
    /\ HitSteps # {}
    /\ assigned.outbreak = FirstOutbreakAt(NearestIndexed).id
    /\ depth = Min(HitSteps)
    /\ trackedEntity.orgUnit \in IndexedUnits => depth = 0
    /\ DOMAIN assigned = DOMAIN trackedEntity \cup {"outbreak"}
    /\ \A k \in DOMAIN trackedEntity : assigned[k] = trackedEntity[k]

\* C4 witness: U3 -> U2 -> U1; U1 is the first location of O1 and of O2, in
\* that order, and U3 is only a second location: the entity of U3 gets O1.
C4_Witness ==
  /\ aPc = "returned"
  /\ trackedEntity.orgUnit = "U3"
  /\ orgUnits = <<[id |-> "U3", parent |-> [id |-> "U2"]],
                  [id |-> "U2", parent |-> [id |-> "U1"]],
                  [id |-> "U1"]>>
  /\ outbreaks = <<[id |-> "O1", locationIds |-> <<"U1", "U3">>],
                   [id |-> "O2", locationIds |-> <<"U1">>]>>
  /\ assigned.outbreak = "O1"
  /\ depth = 2

(***************************************************************************)
(* Properties of the event enrichment (SpecEnrich)                         *)
(***************************************************************************)

\* The events of the entity that belong to a program stage.
EventsOfStage(stage) ==
  {i \in 1..Len(events) : events[i].programStage = stage}

\* The data values of the first event of a stage; none without such an event.
FirstEventValues(stage) ==
  IF EventsOfStage(stage) = {} THEN <<>>
  ELSE LET ev == events[Min(EventsOfStage(stage))]
       IN IF "dataValues" \in DOMAIN ev THEN ev.dataValues ELSE <<>>

\* The display name of the first catalog element with an id.
FirstCatalogName(id) ==
  LET matches == {c \in 1..Len(dataElements) : dataElements[c].id = id}
  IN IF matches = {} THEN Undefined
     ELSE prop("displayName", dataElements[Min(matches)])

\* C8: once addEvent has run for a stage, the stage's field holds the data
\* values of the first event with the configured stage id, each with the
\* displayName of the first catalog element of its id (undefined without
\* one); without such an event the field is the empty list; the fields the
\* entity came with are unchanged.
C8_AddEventStoresFirstEvent ==
  /\ \A k \in 1..ePc :
       LET field == enriched[eventNames[k]]
           values == FirstEventValues(programsIDs[k])
       IN /\ EventsOfStage(programsIDs[k]) = {} => field = <<>>
          /\ Len(field) = Len(values)
          /\ \A j \in 1..Len(values) :
               /\ DOMAIN field[j] = {"dataElement", "value", "displayName"}
               /\ field[j].dataElement = values[j].dataElement
               /\ field[j].value = values[j].value
               /\ field[j].displayName =
                    FirstCatalogName(values[j].dataElement)
  /\ DOMAIN enriched =
       DOMAIN RawEntity(events) \cup {eventNames[k] : k \in 1..ePc}
  /\ \A f \in DOMAIN RawEntity(events) : enriched[f] = RawEntity(events)[f]

\* C8 witness: two lab result events; the first one's values are stored,
\* D1 named by the first of its two catalog entries and D3 without a name,
\* and the stages without an event are empty lists.
C8_Witness ==
  /\ ePc = 4
  /\ events = <<[programStage |-> "S3",
                 dataValues |-> <<[dataElement |-> "D1", value |-> "P"],
                                  [dataElement |-> "D3", value |-> "N"]>>],
                [programStage |-> "S3",
                 dataValues |-> <<[dataElement |-> "D2", value |-> "N"]>>]>>
  /\ enriched.labResultStage =
       <<[dataElement |-> "D1", value |-> "P", displayName |-> "Test result"],
         [dataElement |-> "D3", value |-> "N", displayName |-> Undefined]>>
  /\ enriched.symptoms = <<>>
  /\ enriched.clinicalExamination = <<>>

(***************************************************************************)
(* Properties of the classification (SpecClassify)                         *)
(***************************************************************************)

\* A condition is met by the first data value of its element.
ConditionMet(stage, cond) ==
  \E i \in 1..Len(stage) :
    /\ stage[i].dataElement = cond[1]
    /\ stage[i].value = cond[2]
    /\ \A j \in 1..(i - 1) : stage[j].dataElement # cond[1]

\* A condition is met by some data value of its element.
ConditionMetBySome(stage, cond) ==
  \E i \in 1..Len(stage) :
    stage[i].dataElement = cond[1] /\ stage[i].value = cond[2]

AllConditionsMet ==
  \A c \in 1..Len(conditions) : ConditionMet(te.labResultStage, conditions[c])

\* C5: with a non-empty labResultStage, labResult is POSITIVE exactly when
\* every condition finds, as the first data value of its element, one with
\* the expected value (when no element occurs twice: exactly when every
\* condition has a data value of its element with that value), and NEGATIVE
\* otherwise; the classification is then CONFIRMED or NOT_A_CASE_DISCARDED,
\* whatever the other three stages hold.
C5_LabResultAndClassification ==
  (cPc \in {"labResult", "classified"} /\ Len(te.labResultStage) > 0) =>
    /\ te.labResult = (IF AllConditionsMet THEN "POSITIVE" ELSE "NEGATIVE")
    /\ Distinct([i \in 1..Len(te.labResultStage) |->
                   te.labResultStage[i].dataElement]) =>
         (te.labResult = "POSITIVE" <=>
            \A c \in 1..Len(conditions) :
              ConditionMetBySome(te.labResultStage, conditions[c]))
    /\ cPc = "classified" =>
         te.caseClassification =
           (IF AllConditionsMet THEN "CONFIRMED" ELSE "NOT_A_CASE_DISCARDED")

\* C5 witness: two conditions, only one of them met, other stages not empty:
\* NEGATIVE and NOT_A_CASE_DISCARDED.
C5_Witness ==
  /\ cPc = "classified"
  /\ conditions = <<<<"D1", "P">>, <<"D2", "P">>>>
  /\ Len(te.labResultStage) = 2
  /\ te.labResultStage[1].dataElement = "D1"
  /\ te.labResultStage[1].value = "P"
  /\ te.labResultStage[2].dataElement = "D2"
  /\ te.labResultStage[2].value = "N"
  /\ Len(te.labRequestStage) > 0
  /\ te.labResult = "NEGATIVE"
  /\ te.caseClassification = "NOT_A_CASE_DISCARDED"

\* C6: for an entity whose labResultStage is the empty list, addLabResult
\* leaves labResult unset.
C6_EmptyStageLeavesLabResultUnset ==
  (cPc = "labResult" /\ te.labResultStage = <<>>) =>
    "labResult" \notin DOMAIN te

\* C7: with an empty labResultStage the classification is PROBABLE when
\* labRequestStage is not empty and SUSPECT when all four stages are empty,
\* and never CONFIRMED or NOT_A_CASE_DISCARDED, for every condition list.
C7_EmptyStageClassification ==
  (cPc = "classified" /\ te.labResultStage = <<>>) =>
    /\ te.caseClassification \notin {"CONFIRMED", "NOT_A_CASE_DISCARDED"}
    /\ Len(te.labRequestStage) > 0 => te.caseClassification = "PROBABLE"
    /\ (/\ te.labRequestStage = <<>>
        /\ te.clinicalExamination = <<>>
        /\ te.symptoms = <<>>) => te.caseClassification = "SUSPECT"

(***************************************************************************)
(* Properties of the sending (SpecSend)                                    *)
(***************************************************************************)

CallsOf(op) == {i \in 1..Len(calls) : calls[i].op = op}

\* C1: every createOutbreakCase call was issued after an
\* activateOutbreakForUser call for the same outbreak that has resolved.
C1_ActivateBeforeCreate ==
  \A j \in CallsOf("createOutbreakCase") :
    \E i \in CallsOf("activateOutbreakForUser") :
      /\ i < j
      /\ calls[i].outbreak = calls[j].outbreak
      /\ calls[i].status = "resolved"

\* C1 witness: the cases of a second outbreak are in flight.
C1_Witness ==
  /\ Cardinality(CallsOf("activateOutbreakForUser")) = 2
  /\ \E j \in CallsOf("createOutbreakCase") :
       /\ calls[j].status = "pending"
       /\ calls[j].outbreak = current

\* C2: once sendCasesToGoData has been called there is exactly one login
\* call, the first call of all; every activation was issued after it had
\* resolved, with the userId it resolved with.
C2_LoginOnceBeforeActivation ==
  /\ sPc # "start" =>
       /\ Cardinality(CallsOf("login")) = 1
       /\ calls[1].op = "login"
  /\ \A j \in CallsOf("activateOutbreakForUser") :
       /\ calls[1].status = "resolved"
       /\ calls[j].userId = calls[1].result.userId

\* C2 witness: a run over two outbreaks has ended; both activations carry
\* the userId the login gave.
C2_Witness ==
  /\ sPc = "done"
  /\ Cardinality(CallsOf("activateOutbreakForUser")) = 2
  /\ calls[1].result.userId = "B"
  /\ \A j \in CallsOf("activateOutbreakForUser") : calls[j].userId = "B"

\* A createOutbreakCase call that submits a case: to the case's outbreak,
\* the case without its outbreak field, every other field as it was.
Submits(call, case) ==
  /\ call.outbreak = case.outbreak
  /\ DOMAIN call.case = DOMAIN case \ {"outbreak"}
  /\ \A k \in DOMAIN call.case : call.case[k] = case[k]

Submissions(case) ==
  {j \in CallsOf("createOutbreakCase") : Submits(calls[j], case)}

Occurrences(case) == {k \in 1..Len(cases) : cases[k] = case}

\* C9: no case is ever submitted more often than it is in the list; when
\* the run ends without a failure every call has resolved, every case of the
\* list has been submitted exactly once, to its outbreak and without its
\* outbreak field, there is no other createOutbreakCase call, and each
\* outbreak of the list has been activated exactly once.
C9_EveryCaseSubmittedOnce ==
  /\ \A i \in 1..Len(cases) :
       Cardinality(Submissions(cases[i])) <= Cardinality(Occurrences(cases[i]))
  /\ sPc = "done" =>
       /\ \A j \in 1..Len(calls) : calls[j].status = "resolved"
       /\ \A i \in 1..Len(cases) :
            Cardinality(Submissions(cases[i]))
              = Cardinality(Occurrences(cases[i]))
       /\ Cardinality(CallsOf("createOutbreakCase")) = Len(cases)
       /\ \A o \in OutbreakIds :
            Cardinality({j \in CallsOf("activateOutbreakForUser") :
                           calls[j].outbreak = o})
              = (IF \E i \in 1..Len(cases) : cases[i].outbreak = o
                 THEN 1 ELSE 0)

\* C9 witness: a run over three cases of two outbreaks, one case twice in
\* the list, has ended.
C9_Witness ==
  /\ sPc = "done"
  /\ Len(cases) = 3
  /\ cases[1] = cases[3]
  /\ cases[2].outbreak # cases[1].outbreak
  /\ Cardinality(CallsOf("createOutbreakCase")) = 3

\* C10: when an activation is issued every createOutbreakCase call issued
\* before it has resolved, and every createOutbreakCase call in flight
\* targets the outbreak activated last.
C10_GroupsOneAfterAnother ==
  /\ \A j \in CallsOf("activateOutbreakForUser") :
       \A i \in CallsOf("createOutbreakCase") :
         i < j => calls[i].status = "resolved"
  /\ \A i \in CallsOf("createOutbreakCase") :
       calls[i].status = "pending" =>
         calls[i].outbreak
           = calls[IndexOfLast("activateOutbreakForUser")].outbreak

\* C10 witness: two calls of the second group are in flight together, after
\* the calls of the first group.
C10_Witness ==
  /\ Cardinality(CallsOf("activateOutbreakForUser")) = 2
  /\ Cardinality({i \in CallsOf("createOutbreakCase") :
                    calls[i].status = "pending"}) = 2
  /\ \E i \in CallsOf("createOutbreakCase") : calls[i].status = "resolved"

====
